---------------------------- MODULE Spec2Model ----------------------------
(***************************************************************************)
(* GRBL serial client and jog pipeline of emsd-capstone.                   *)
(*                                                                         *)
(* Four programs of the repository share one serial protocol:              *)
(*   "pi"    src/src/pi_controller_to_grbl.py  (stick jog over serial)     *)
(*   "home"  src/src/go_set_home_test.py       (button jog, save/go home)  *)
(*   "gcode" src/src/controller_to_gcode.py    (stick jog, printed only)   *)
(*   "diag"  src/src/grbl_connection_test.py   (status query / alarm flow) *)
(* "api" is a client of pi's GrblController that calls connect,            *)
(* send_command and close in any order, and "calls" is a caller of the     *)
(* module-level function axis_to_step, and of the trigger lines of         *)
(* controller_to_gcode, with arguments of its choice.  Init picks the      *)
(* program that runs; the device (GRBL) and the operator are the           *)
(* environment.                                                            *)
(*                                                                         *)
(* Time.  One unit is 10 ms, the period of time.sleep(0.01).  The code     *)
(* only ever compares differences of time.time() readings, so the model    *)
(* keeps those differences instead of absolute clock values:               *)
(*   elapsed    = time.time() - start        (the read loop in progress)   *)
(*   age        = time.time() - last_cmd_time                              *)
(*   since_now  = time.time() - now          (time spent in this tick)     *)
(*   now_gap    = now - last_cmd_time        (what the rate gate reads)    *)
(* age, since_now and the ghost timers saturate at COMMAND_INTERVAL: the   *)
(* code compares them with nothing larger.                                 *)
(*                                                                         *)
(* Numbers.  A float is an integer count of 1/ONE (ONE = 10^4), so that    *)
(* the %.3f conversion (to thousandths) is a rounding and not the identity.*)
(*                                                                         *)
(* Text.  A line is a sequence of tokens [k, n]: k is the token's text (or *)
(* "num" / an axis letter for a formatted number) and n its number.        *)
(***************************************************************************)
EXTENDS Integers, Sequences, FiniteSets, TLC

---------------------------------------------------------------------------
(* Bounds of the model (not program constants).                            *)

\* capacity of the serial input buffer, in lines
MaxRx == 2
\* lines the device sends in one run
MaxDevLines == 2
\* empty polls of a read loop after which the device stays silent for the
\* rest of that read loop
MaxLatency == 1
\* a streaming device sends one line every StreamPeriod units of time
StreamPeriod == 50
\* lines of one read loop the model keeps in its lists; the device of Spec
\* never sends more in a run
MaxKept == MaxDevLines + 1

---------------------------------------------------------------------------
(* Program constants, in units of 10 ms and of 1/ONE.                      *)

ONE == 10 ^ 4

COMMAND_INTERVAL == 20
TICK_SLEEP == 1
SEND_TIMEOUT == 200
Z_TIMEOUT == 100
CONNECT_SLEEP == 200
WRITE_TIMEOUT == 100
READ_ALL_SLEEP == 5
STATUS_TIMEOUT == 200
SEND_RECV_TIMEOUT == 300

DEADZONE_PI == 2000
DEADZONE_GCODE == 4000
MAX_STEP_PI == 10000
MAX_STEP_GCODE == 10000
MAX_STEP_HOME == 50000
FEED_PI == 5000000
FEED_GCODE == 5000000
FEED_HOME == 20000000

---------------------------------------------------------------------------
(* Tokens and lines.                                                       *)

W(s) == [k |-> s, n |-> 0]
Num(v) == [k |-> "num", n |-> v]
Ax(a, v) == [k |-> a, n |-> v]

IsSpace(t) == t.k \in {" ", "\r\n\r\n"}

\* str.strip(): leading and trailing whitespace removed
RECURSIVE LStrip(_)
LStrip(l) == IF l # <<>> /\ IsSpace(Head(l)) THEN LStrip(Tail(l)) ELSE l

RECURSIVE RStrip(_)
RStrip(l) ==
  IF l # <<>> /\ IsSpace(l[Len(l)]) THEN RStrip(SubSeq(l, 1, Len(l) - 1)) ELSE l

Strip(l) == RStrip(LStrip(l))

\* texts that begin with "ok" / with "error"
OkPrefixed == {"ok", "okay"}
ErrorPrefixed == {"error", "error:9"}

\* variant: only "error" ends a response
IsTerminalErrorOnly(l) == l # <<>> /\ l[1].k \in ErrorPrefixed

\* resp.startswith("ok") or resp.startswith("error")
IsTerminal(l) == l # <<>> /\ l[1].k \in (OkPrefixed \cup ErrorPrefixed)


\* the lines of l that are not empty once stripped, stripped, in order
RECURSIVE NonEmptyStripped(_)
NonEmptyStripped(l) ==
  IF l = <<>> THEN <<>>
  ELSE IF Strip(Head(l)) = <<>> THEN NonEmptyStripped(Tail(l))
       ELSE <<Strip(Head(l))>> \o NonEmptyStripped(Tail(l))

\* list.append(x), as far as the model keeps the list
Keep(l, x) == IF Len(l) < MaxKept THEN Append(l, x) ELSE l

Abs(v) == IF v < 0 THEN -v ELSE v
Cap(t) == IF t > COMMAND_INTERVAL THEN COMMAND_INTERVAL ELSE t

\* the timers of the last jog saturate one unit later, at "longer ago than
\* COMMAND_INTERVAL, or never"
LongAgo == COMMAND_INTERVAL + 1
CapJog(t) == IF t > LongAgo THEN LongAgo ELSE t

\* "%.3f": the value in thousandths; "%.1f": the value in tenths
Fmt3(v) == IF v < 0 THEN -((-v + 5) \div 10) ELSE (v + 5) \div 10
Fmt1(v) == IF v < 0 THEN -((-v + 500) \div 1000) ELSE (v + 500) \div 1000

---------------------------------------------------------------------------
(* The environment: what the device may send, what the operator may do.    *)

OkLine == <<W("ok")>>
ErrorLine == <<W("error:9")>>
MsgLine == <<W("[MSG]")>>
BlankLine == <<W(" ")>>

\* <state|MPos:x,y,z|FS:0,0>  and  <state|WPos:x,y,z|FS:0,0>
Status(state, frame, x, y, z) ==
  << W("<"), W(state), W("|"), W(frame), Num(x), W(","), Num(y), W(","),
     Num(z), W("|"), W("FS:0,0>") >>

\* <Idle|WPos:x,y>  (a position with two fields)
ShortStatus == << W("<"), W("Idle"), W("|"), W("WPos:"), Num(10000), W(","),
                  Num(20000), W("|"), W("FS:0,0>") >>

\* <Idle|MPos:x,y,z>  (no field after the position: the third field is "z>")
UnclosedStatus == << W("<"), W("Idle"), W("|"), W("MPos:"), Num(10000), W(","),
                     Num(20000), W(","), Num(15000), W(">") >>

StatusLines ==
  { Status("Idle", "WPos:", 10000, 20000, 15000),
    Status("Idle", "MPos:", 10000, 20000, -20000) }

\* the Z component of the position the device reports in line l, if any
ReportedZ(l) ==
  IF l \in StatusLines \/ l = UnclosedStatus THEN {l[9].n} ELSE {}

AlarmLine == Status("Alarm", "MPos:", 0, 0, 0)
IdleLine == Status("Idle", "MPos:", 10000, 20000, -20000)

\* what the device may send while the program is at place at: a status
\* report in answer to "?", ok / error / a message in answer to a command
\* line or at startup.  A line of one exchange still reaches the next one
\* when it is left in the input buffer.
DeviceLines(p, at) ==
  IF p = "diag" THEN {OkLine, ErrorLine, BlankLine, AlarmLine, IdleLine}
  ELSE IF at = "gz_read" THEN {ShortStatus, UnclosedStatus} \cup StatusLines
  ELSE {OkLine, ErrorLine, MsgLine, BlankLine}

\* stick axis readings of pygame, in 1/ONE
PiAxisVals == {0, 2000, -ONE}

\* stick and trigger readings of pygame in controller_to_gcode, in 1/ONE
GcodeAxisVals == {0, 3999, -4000, ONE}
TriggerVals == {-ONE, -2000, 0, 4000, ONE}

---------------------------------------------------------------------------
(* State.                                                                  *)

VARIABLES
  prog,         \* which program runs
  pc,           \* its position
  ret,          \* where the read loop in progress returns to
  scope,        \* the try block main is in: "none", "connect", "loop"
  exit_how,     \* how main ended, "" while it runs
  raised,       \* the last exception raised out of a call, "" if none
  ser,          \* the serial object: "none", "open", "closed"
  opened,       \* the serial port was opened at some time
  rx,           \* lines buffered for reading (ser.in_waiting)
  dev,          \* lines the device may still send
  lines,        \* send_command: lines collected
  consumed,     \* raw lines the read loop in progress has taken from rx
  stale,        \* lines that were in rx when the exchange in progress wrote
  sc_how,       \* how the last send_command ended: "" while none has, or
                \* "terminal", "timeout", "raised"
  elapsed,      \* time.time() - start
  idle,         \* empty polls in a row of the read loop in progress
  tx,           \* the last call of _write_raw / ser.write in this tick
  jog,          \* the jog command emitted in this tick
  age,          \* time.time() - last_cmd_time
  since_now,    \* time.time() - now
  now_gap,      \* now - last_cmd_time
  since_motion, \* time since the last motion command was written
  jog_age,      \* time.time() - (now of the tick of the last jog)
  jog_gap,      \* now - (now of the tick of the last jog)
  home_z,       \* home: <<>> for None, <<z>> for a float
  prev_x,       \* home: the X button at the tick before
  prev_y,       \* home: the Y button at the tick before
  btn,          \* home: the buttons read in this tick
  report,       \* home: the last save-home / go-home message of this tick
  home_before,  \* home: home_z when the save-home in progress began
  ra_lines,     \* diag: read_all_lines: lines collected
  ra_timeout,   \* diag: read_all_lines: its timeout
  q,            \* diag: test_status_query: the lines still to look at
  n_unlock,     \* diag: test_status_query: "$X" written
  n_requery,    \* diag: test_status_query: "?" written after an unlock
  call          \* calls: the function called, its arguments, what it returned

ctl == << prog, pc, ret, scope, exit_how, raised >>
port == << ser, opened >>
env == << rx, dev >>
reader == << lines, consumed, stale, sc_how, elapsed, idle >>
obs == << tx, jog >>
timers == << age, since_now, now_gap, since_motion, jog_age, jog_gap >>
homev == << home_z, prev_x, prev_y, btn, report, home_before >>
diagv == << ra_lines, ra_timeout, q, n_unlock, n_requery >>

vars == << ctl, port, env, reader, obs, timers, homev, diagv, call >>

Programs == {"pi", "home", "gcode", "diag", "api", "calls"}

\* arguments for axis_to_step(val, max_step, deadzone), in 1/ONE: axis values
\* from -1 to 1 at, next to and away from the deadzones, all even so that
\* their product with every step is a whole number of 1/ONE
AxisInputs == {-ONE, -4000, -2000, 0, 1998, 2000, 4000, ONE}
StepInputs == {ONE \div 2, ONE, 5 * ONE}
DeadzoneInputs == {0, 2000, 4000}

NoCall == [fn |-> "", args |-> <<>>, out |-> <<>>]

\* the calls the program "calls" may make: axis_to_step, and the lines of
\* controller_to_gcode that turn the two triggers into dz, with MAX_STEP_MM
\* and DEADZONE set to m and d
Calls ==
  { [fn |-> "axis_to_step", args |-> << v, m, d >>, out |-> <<>>] :
      v \in AxisInputs, m \in StepInputs, d \in DeadzoneInputs }
  \cup
  { [fn |-> "trigger_step", args |-> << lt, rt, m, d >>, out |-> <<>>] :
      lt \in TriggerVals, rt \in TriggerVals, m \in StepInputs,
      d \in DeadzoneInputs }

\* at: where the program was when it made the call, "" when it made none
NoTx ==
  [line |-> <<>>, nl |-> FALSE, ser |-> "open", gap |-> COMMAND_INTERVAL,
   at |-> ""]
\* d: the deltas the tick compared with 0.0, <<>> when it compared none
NoJog == [line |-> <<>>, sep |-> LongAgo, d |-> <<>>]
NoButtons == [a |-> FALSE, b |-> FALSE, x |-> FALSE, y |-> FALSE]

\* the variables of a program that has not started, or has ended
Blank ==
  /\ ret = ""
  /\ scope = "none"
  /\ rx = <<>>
  /\ dev = MaxDevLines
  /\ lines = <<>>
  /\ consumed = <<>>
  /\ stale = 0
  /\ sc_how = ""
  /\ elapsed = 0
  /\ idle = 0
  /\ tx = NoTx
  /\ jog = NoJog
  /\ age = COMMAND_INTERVAL
  /\ since_now = 0
  /\ now_gap = COMMAND_INTERVAL
  /\ since_motion = COMMAND_INTERVAL
  /\ jog_age = LongAgo
  /\ jog_gap = LongAgo
  /\ home_z = <<>>
  /\ prev_x = FALSE
  /\ prev_y = FALSE
  /\ btn = NoButtons
  /\ report = ""
  /\ home_before = <<>>
  /\ ra_lines = <<>>
  /\ ra_timeout = 0
  /\ q = <<>>
  /\ n_unlock = 0
  /\ n_requery = 0

Init ==
  /\ prog \in Programs
  /\ pc = IF prog = "api" THEN "api_idle"
          ELSE IF prog = "calls" THEN "call" ELSE "start"
  /\ call \in IF prog = "calls" THEN Calls ELSE {NoCall}
  /\ exit_how = ""
  /\ raised = ""
  /\ ser = "none"
  /\ opened = FALSE
  /\ Blank

---------------------------------------------------------------------------
(* Time and the wire.                                                      *)

\* d units of time pass
Pass(d) ==
  /\ age' = Cap(age + d)
  /\ since_now' = Cap(since_now + d)
  /\ since_motion' = Cap(since_motion + d)
  /\ jog_age' = CapJog(jog_age + d)
  /\ UNCHANGED << now_gap, jog_gap >>

\* time.sleep(0.01) at the end of a tick, and the top of the next one, which
\* follows at once: now = time.time().  What the tick kept for itself (the
\* response, the buttons, the messages) is gone.  The caller sets age and
\* jog.
NextTick ==
  /\ pc' = "loop"
  /\ since_now' = 0
  /\ now_gap' = age'
  /\ jog_age' = CapJog(jog_age + TICK_SLEEP)
  /\ jog_gap' = jog_age'
  /\ since_motion' = Cap(since_motion + TICK_SLEEP)
  /\ lines' = <<>>
  /\ consumed' = <<>>
  /\ stale' = 0
  /\ sc_how' = ""
  /\ elapsed' = 0
  /\ idle' = 0
  /\ tx' = NoTx
  /\ btn' = NoButtons
  /\ report' = ""
  /\ home_before' = <<>>
  /\ UNCHANGED << prog, call, ret, scope, exit_how, raised, port, env, home_z,
                  diagv >>

\* the try block of the loop is entered: last_cmd_time = 0.0
EnterLoop ==
  /\ pc' = "loop"
  /\ scope' = "loop"
  /\ age' = COMMAND_INTERVAL
  /\ since_now' = 0
  /\ now_gap' = COMMAND_INTERVAL
  /\ jog_gap' = jog_age
  /\ lines' = <<>>
  /\ consumed' = <<>>
  /\ stale' = 0
  /\ sc_how' = ""
  /\ elapsed' = 0
  /\ idle' = 0
  /\ tx' = NoTx
  /\ UNCHANGED << prog, call, ret, exit_how, raised, port, env, jog,
                  since_motion, jog_age, homev, diagv >>

IsJog(l) == l # <<>> /\ l[1].k = "$J=G91"
IsGoHome(l) == l # <<>> /\ l[1].k = "G90"
IsMotion(l) == IsJog(l) \/ IsGoHome(l)

\* _write_raw(s) / ser.write(s): the bytes go to the port; tx keeps the call,
\* the state of the port it found, the time since the motion command before
\* it and the place the program was at
WriteRaw(l, nl) ==
  /\ tx' = [line |-> l, nl |-> nl, ser |-> ser,
            gap |-> IF IsMotion(l) THEN since_motion ELSE COMMAND_INTERVAL,
            at |-> pc]
  /\ UNCHANGED dev

\* variant: a close() that leaves the port as it is
CloseNothing(p, s) == s

\* close(): pi sets self.ser to None, the others keep the closed object
Close(p, s) ==
  IF s = "open" THEN (IF p \in {"pi", "api"} THEN "none" ELSE "closed") ELSE s

\* where a line may arrive: while the program sleeps inside connect, polls
\* in a read loop, or is between two exchanges (at the top of a pass of the
\* loop, between two calls of the api client)
ListeningPcs ==
  {"settle1", "settle2", "sc_read", "gz_read", "ra_read", "d_boot",
   "api_idle", "loop"}

\* the timeout of the read loop at pc
ReadTimeout ==
  IF pc = "sc_read" THEN SEND_TIMEOUT
  ELSE IF pc = "gz_read" THEN Z_TIMEOUT
  ELSE ra_timeout

\* the device puts one more line into the input buffer
DeviceSend(l) ==
  /\ pc \in ListeningPcs
  /\ ser = "open"
  /\ dev > 0
  /\ Len(rx) < MaxRx
  /\ pc \in {"sc_read", "gz_read", "ra_read"} =>
       idle <= MaxLatency /\ elapsed < ReadTimeout
  /\ rx' = Append(rx, l)
  /\ dev' = dev - 1
  /\ UNCHANGED << ctl, call, port, reader, obs, timers, homev, diagv >>

Device == \E l \in DeviceLines(prog, pc) : DeviceSend(l)

---------------------------------------------------------------------------
(* Exceptions and the end of main.                                         *)

\* main ends (how) with the port left as s; the process and what it held are
\* gone
Exit(how, e, s) ==
  /\ pc' = "exit"
  /\ exit_how' = how
  /\ raised' = e
  /\ ser' = s
  /\ UNCHANGED << prog, call, opened >>
  /\ ret' = ""
  /\ scope' = "none"
  /\ rx' = <<>>
  /\ dev' = MaxDevLines
  /\ lines' = <<>>
  /\ consumed' = <<>>
  /\ stale' = 0
  /\ sc_how' = ""
  /\ elapsed' = 0
  /\ idle' = 0
  /\ tx' = NoTx
  /\ jog' = NoJog
  /\ age' = COMMAND_INTERVAL
  /\ since_now' = 0
  /\ now_gap' = COMMAND_INTERVAL
  /\ since_motion' = COMMAND_INTERVAL
  /\ jog_age' = LongAgo
  /\ jog_gap' = LongAgo
  /\ home_z' = <<>>
  /\ prev_x' = FALSE
  /\ prev_y' = FALSE
  /\ btn' = NoButtons
  /\ report' = ""
  /\ home_before' = <<>>
  /\ ra_lines' = <<>>
  /\ ra_timeout' = 0
  /\ q' = <<>>
  /\ n_unlock' = 0
  /\ n_requery' = 0

\* an exception leaves main without passing a finally block
Uncaught(e) == Exit("uncaught", e, ser)

\* an exception or the interrupt leaves the try block through
\* "finally: gc.close()"
Finally(e, how) == Exit(how, e, Close(prog, ser))

\* an exception inside connect() / __init__: pi's main catches it and returns,
\* home's constructor is called outside any try, the api client sees it
ConnectRaise(e) ==
  IF prog = "api"
    THEN /\ raised' = e
         /\ pc' = "api_idle"
         /\ UNCHANGED << prog, call, ret, scope, exit_how, port, env, reader,
                         obs, timers, homev, diagv >>
    ELSE Exit(IF prog = "pi" THEN "connect_failed" ELSE "uncaught", e, ser)

---------------------------------------------------------------------------
(* GrblController.connect / __init__                                       *)

\* serial.Serial(port, baud, timeout=1, write_timeout=1)
ConnOpen ==
  /\ prog \in {"pi", "home", "api"}
  /\ pc = "start"
  /\ \/ /\ ser' = "open"
        /\ opened' = TRUE
        /\ pc' = "settle1"
        /\ scope' = IF prog = "pi" THEN "connect" ELSE scope
        /\ UNCHANGED << prog, call, ret, exit_how, raised, env, reader, obs,
                        timers, homev, diagv >>
     \/ ConnectRaise("SerialException")

\* variant: a connect that sends "$X" after its first sleep
AfterSettleUnlocks(p) == "unlock"

\* what follows a sleep and discard of connect: the wake sequence after the
\* first, send_command("$X") after the second
AfterSettle(p) == IF p = "settle1" THEN "wake" ELSE "unlock"

\* time.sleep(2.0); reset_input_buffer()
ConnSettle ==
  /\ pc \in {"settle1", "settle2"}
  /\ pc' = AfterSettle(pc)
  /\ rx' = <<>>
  /\ Pass(CONNECT_SLEEP)
  /\ UNCHANGED << prog, call, ret, scope, exit_how, raised, port, dev, reader,
                  obs, homev, diagv >>

\* _write_raw("\r\n\r\n")
ConnWake ==
  /\ pc = "wake"
  /\ \/ /\ WriteRaw(<<W("\r\n\r\n")>>, FALSE)
        /\ pc' = "settle2"
        /\ UNCHANGED << prog, call, ret, scope, exit_how, raised, port, rx,
                        reader, jog, timers, homev, diagv >>
     \/ ConnectRaise("SerialTimeoutException")

---------------------------------------------------------------------------
(* GrblController.send_command                                             *)

\* variant: send_command without the check
ConnectedAlways(p, s) == TRUE

\* "if not self.ser: raise RuntimeError": pi has the check, home has none
Connected(p, s) == p = "home" \/ s # "none"

\* the write of send_command and the start of its read loop; r is where the
\* caller goes on.  cmd.strip() + "\n" is written.
SendStart(cmd, r) ==
  /\ WriteRaw(Strip(cmd), TRUE)
  /\ pc' = "sc_read"
  /\ ret' = r
  /\ lines' = <<>>
  /\ consumed' = <<>>
  /\ stale' = Len(rx)
  /\ sc_how' = ""
  /\ elapsed' = 0
  /\ idle' = 0
  /\ since_motion' = IF IsMotion(Strip(cmd)) THEN 0 ELSE since_motion

\* variant: a read loop without the break
StopsReadingNever(resp) == FALSE

\* "if resp.startswith("ok") or resp.startswith("error"): break"
StopsReading(resp) == IsTerminal(resp)

\* variant: "start = time.time()" again for every line read, as
\* read_all_lines does
WindowSliding(e) == 0

\* send_command and get_current_z set start once, before the loop: a line
\* that is read leaves time.time() - start as it is
WindowFixed(e) == e

\* resp = self.ser.readline().decode().strip(); collect; stop on ok / error
ScRead ==
  /\ pc = "sc_read"
  /\ elapsed < SEND_TIMEOUT
  /\ rx # <<>>
  /\ LET resp == Strip(Head(rx)) IN
       /\ rx' = Tail(rx)
       /\ consumed' = Keep(consumed, Head(rx))
       /\ lines' = IF resp # <<>> THEN Keep(lines, resp) ELSE lines
       /\ elapsed' = WindowFixed(elapsed)
       /\ idle' = 0
       /\ IF resp # <<>> /\ StopsReading(resp)
            THEN pc' = ret /\ sc_how' = "terminal"
            ELSE pc' = pc /\ sc_how' = sc_how
  /\ UNCHANGED << stale, prog, call, ret, scope, exit_how, raised, port, dev,
                  obs, timers, homev, diagv >>

\* sleeping in a read loop whose buffer is empty: one poll while the device
\* may still answer, all the polls up to the timeout once it is silent
PollSleep(timeout, step) ==
  /\ elapsed < timeout
  /\ rx = <<>>
  /\ LET d == IF idle < MaxLatency THEN step
              ELSE step * ((timeout - elapsed + step - 1) \div step) IN
       /\ elapsed' = elapsed + d
       /\ Pass(d)
  /\ idle' = IF idle < MaxLatency THEN idle + 1 ELSE idle

\* time.sleep(0.01) in send_command
ScSleep ==
  /\ pc = "sc_read"
  /\ PollSleep(SEND_TIMEOUT, TICK_SLEEP)
  /\ UNCHANGED << ctl, call, port, env, lines, consumed, stale, sc_how, obs,
                  homev, diagv >>

\* variant: a send_command that raises when its window has passed
ScExpiredRaises == [to |-> "exit", e |-> "TimeoutError"]

\* what send_command does when its while condition fails: "return lines"
ScExpired == [to |-> ret, e |-> ""]

ScTimeout ==
  /\ pc = "sc_read"
  /\ elapsed >= SEND_TIMEOUT
  /\ pc' = ScExpired.to
  /\ raised' = ScExpired.e
  /\ sc_how' = "timeout"
  /\ UNCHANGED << prog, call, ret, scope, exit_how, port, env, lines,
                  consumed, stale, elapsed, idle, obs, timers, homev, diagv >>

\* self.send_command("$X") at the end of connect
ConnUnlock ==
  /\ pc = "unlock"
  /\ \/ /\ SendStart(<<W("$X")>>, IF prog = "api" THEN "api_idle" ELSE "connected")
        /\ UNCHANGED << prog, call, scope, exit_how, raised, port, rx, jog,
                        age, since_now, now_gap, jog_age, jog_gap, homev,
                        diagv >>
     \/ ConnectRaise("SerialTimeoutException")

---------------------------------------------------------------------------
(* Input mapping, rate gate and jog formatting.                            *)

\* variant: an axis value equal to the deadzone counts as inside it
axis_to_step_inclusive(val, max_step, deadzone) ==
  IF Abs(val) <= deadzone THEN 0 ELSE (max_step * val) \div ONE

\* axis_to_step(val, max_step, deadzone); max_step * val is a whole number
\* of 1/ONE for every argument the model passes, so the division is exact
axis_to_step(val, max_step, deadzone) ==
  IF Abs(val) < deadzone THEN 0 ELSE (max_step * val) \div ONE

\* the program "calls": the call returns
AxisToStep ==
  /\ prog = "calls"
  /\ pc = "call"
  /\ call.fn = "axis_to_step"
  /\ call' = [call EXCEPT !.out =
                << axis_to_step(call.args[1], call.args[2], call.args[3]) >>]
  /\ pc' = "returned"
  /\ UNCHANGED << prog, ret, scope, exit_how, raised, port, env, reader, obs,
                  timers, homev, diagv >>

\* variant: a loop without the rate gate
RateGateOpen(gap) == TRUE

\* now - last_cmd_time >= COMMAND_INTERVAL
RateGate(gap) == gap >= COMMAND_INTERVAL

\* variant: a tick that builds its command whatever the deltas are
MovesAlways(dx, dy, dz) == TRUE

\* "if dx != 0.0 or dy != 0.0 or dz != 0.0"
Moves(dx, dy, dz) == dx # 0 \/ dy # 0 \/ dz # 0

\* variant: the feed token first, then the axes from Z to X
JogLineReversed(dx, dy, dz, feed) ==
  << W("$J=G91"), Ax("F", Fmt1(feed)) >>
    \o (IF dz # 0 THEN << Ax("Z", Fmt3(dz)) >> ELSE <<>>)
    \o (IF dy # 0 THEN << Ax("Y", Fmt3(dy)) >> ELSE <<>>)
    \o (IF dx # 0 THEN << Ax("X", Fmt3(dx)) >> ELSE <<>>)

\* parts = ["$J=G91"] + one token for each non-zero axis + feed; " ".join
JogLine(dx, dy, dz, feed) ==
  << W("$J=G91") >>
    \o (IF dx # 0 THEN << Ax("X", Fmt3(dx)) >> ELSE <<>>)
    \o (IF dy # 0 THEN << Ax("Y", Fmt3(dy)) >> ELSE <<>>)
    \o (IF dz # 0 THEN << Ax("Z", Fmt3(dz)) >> ELSE <<>>)
    \o << Ax("F", Fmt1(feed)) >>

\* variant: a tick that goes back to its jog when send_command has returned
AfterJogAgain == "jog"

\* where the tick goes on when the send_command of its jog has returned:
\* print the response, last_cmd_time = now, the sleep
AfterJog == "jogged"

\* variant: every tick sets last_cmd_time = now
AgeAfterIdleStamped(a, s) == Cap(s + TICK_SLEEP)

\* time.time() - last_cmd_time after the sleep of a tick that emitted
\* nothing, when it was a and time.time() - now was s at its last statement
\* before the sleep: the tick does not assign last_cmd_time
AgeAfterIdle(a, s) == Cap(a + TICK_SLEEP)

\* a tick that emits no jog: d are the deltas when the rate gate was passed
\* and they were compared with 0.0
IdleJog(d) == [NoJog EXCEPT !.d = IF RateGate(now_gap) THEN d ELSE <<>>]

\* the jog is emitted in a tick whose timestamp is now: sep is the distance
\* of now from the timestamp of the jog before it, d the deltas it is built
\* for
EmitJog(l, sep, d) ==
  /\ jog' = [line |-> l, sep |-> sep, d |-> d]
  /\ jog_age' = since_now

---------------------------------------------------------------------------
(* pi_controller_to_grbl.py: main                                          *)

\* settings = gc.send_command("$$"), outside any try
PiSettings ==
  /\ prog = "pi"
  /\ pc = "connected"
  /\ \/ /\ SendStart(<<W("$$")>>, "joyinit")
        /\ scope' = "none"
        /\ UNCHANGED << prog, call, exit_how, raised, port, rx, jog, age,
                        since_now, now_gap, jog_age, jog_gap, homev, diagv >>
     \/ Uncaught("SerialTimeoutException")

\* pygame.joystick.get_count() == 0: pi closes and returns
PiJoyInit ==
  /\ prog = "pi"
  /\ pc = "joyinit"
  /\ \/ Exit("no_joystick", "", Close(prog, ser))
     \/ EnterLoop

\* variant: a pass that starts while the exchange of the pass before it is
\* still reading
TickStartsAnytime(p) == p \in {"loop", "sc_read", "gz_read"}

\* "while True:": a pass starts when the pass before it has come to its end
TickStarts(p) == p = "loop"

\* one pass of the loop: to the send of the jog, or through the sleep
PiTick(lx, ly, rz) ==
  /\ prog = "pi"
  /\ TickStarts(pc)
  /\ LET dx == axis_to_step(lx, MAX_STEP_PI, DEADZONE_PI)
         dy == axis_to_step(-ly, MAX_STEP_PI, DEADZONE_PI)
         dz == axis_to_step(-rz, MAX_STEP_PI, DEADZONE_PI)
         gcode == JogLine(dx, dy, dz, FEED_PI)
     IN IF RateGate(now_gap) /\ Moves(dx, dy, dz)
        THEN \/ /\ Connected(prog, ser)
                /\ SendStart(gcode, AfterJog)
                /\ EmitJog(gcode, jog_gap, << dx, dy, dz >>)
                /\ UNCHANGED << prog, call, scope, exit_how, raised, port, rx,
                                age, since_now, now_gap, jog_gap, homev,
                                diagv >>
             \/ Finally(IF Connected(prog, ser) THEN "SerialTimeoutException"
                        ELSE "RuntimeError", "fault")
        ELSE /\ age' = AgeAfterIdle(age, since_now)
             /\ jog' = IdleJog(<< dx, dy, dz >>)
             /\ NextTick
             /\ UNCHANGED << prev_x, prev_y >>

\* send_command returned: print, last_cmd_time = now, the sleep
Jogged ==
  /\ prog \in {"pi", "home"}
  /\ pc = "jogged"
  /\ age' = Cap(since_now + TICK_SLEEP)
  /\ jog' = NoJog
  /\ NextTick
  /\ UNCHANGED << prev_x, prev_y >>

\* Ctrl+C: KeyboardInterrupt at the statement main is at
Interrupt ==
  /\ prog \in {"pi", "home", "gcode", "diag"}
  /\ pc # "exit"
  /\ IF scope = "loop" THEN Finally("KeyboardInterrupt", "interrupt")
     ELSE Uncaught("KeyboardInterrupt")

---------------------------------------------------------------------------
(* controller_to_gcode.py: main                                            *)

\* pygame.joystick.get_count() == 0: return
GcodeJoyInit ==
  /\ prog = "gcode"
  /\ pc = "start"
  /\ \/ Exit("no_joystick", "", ser)
     \/ EnterLoop

\* lt_val = (lt + 1) / 2 if lt < 0 else lt
TriggerNorm(raw) == IF raw < 0 THEN (raw + ONE) \div 2 ELSE raw

\* dz = MAX_STEP_MM * (rt_val - lt_val); if abs(dz) < DEADZONE: dz = 0.0
TriggerStep(lt, rt, max_step, deadzone) ==
  LET dz == (max_step * (TriggerNorm(rt) - TriggerNorm(lt))) \div ONE
  IN IF Abs(dz) < deadzone THEN 0 ELSE dz

\* the program "calls": lines 67-73 have run for the triggers and the
\* configuration of the call
TriggerToStep ==
  /\ prog = "calls"
  /\ pc = "call"
  /\ call.fn = "trigger_step"
  /\ call' = [call EXCEPT !.out =
                << TriggerStep(call.args[1], call.args[2], call.args[3],
                               call.args[4]) >>]
  /\ pc' = "returned"
  /\ UNCHANGED << prog, ret, scope, exit_how, raised, port, env, reader, obs,
                  timers, homev, diagv >>

\* one pass of the loop: to the print of the jog, or through the sleep
GcodeTick(lx, ly, lt, rt) ==
  /\ prog = "gcode"
  /\ pc = "loop"
  /\ LET dx == axis_to_step(lx, MAX_STEP_GCODE, DEADZONE_GCODE)
         dy == axis_to_step(-ly, MAX_STEP_GCODE, DEADZONE_GCODE)
         dz == TriggerStep(lt, rt, MAX_STEP_GCODE, DEADZONE_GCODE)
         gcode == JogLine(dx, dy, dz, FEED_GCODE)
     IN IF RateGate(now_gap) /\ Moves(dx, dy, dz)
        THEN /\ EmitJog(gcode, jog_gap, << dx, dy, dz >>)
             /\ pc' = "printed"
             /\ UNCHANGED << prog, call, ret, scope, exit_how, raised, port,
                             env, reader, tx, age, since_now, now_gap,
                             since_motion, jog_gap, homev, diagv >>
        ELSE /\ age' = AgeAfterIdle(age, since_now)
             /\ jog' = IdleJog(<< dx, dy, dz >>)
             /\ NextTick
             /\ UNCHANGED << prev_x, prev_y >>

\* print(gcode) done: last_cmd_time = now, the sleep
GcodePrinted ==
  /\ prog = "gcode"
  /\ pc = "printed"
  /\ age' = Cap(since_now + TICK_SLEEP)
  /\ jog' = NoJog
  /\ NextTick
  /\ UNCHANGED << prev_x, prev_y >>

---------------------------------------------------------------------------
(* A client of pi's GrblController that calls its methods in any order.    *)

ApiCommands == { <<W("$X")>>, <<>>, JogLine(ONE, 0, 0, FEED_PI) }

\* gc.connect(); what the call before it returned is dropped
ApiConnect ==
  /\ prog = "api"
  /\ pc = "api_idle"
  /\ ser = "none"
  /\ pc' = "start"
  /\ raised' = ""
  /\ sc_how' = ""
  /\ UNCHANGED << prog, call, ret, scope, exit_how, port, env, lines,
                  consumed, stale, elapsed, idle, obs, timers, homev, diagv >>

\* gc.send_command(cmd)
ApiSend(cmd) ==
  /\ prog = "api"
  /\ pc = "api_idle"
  /\ IF Connected(prog, ser)
       THEN \/ /\ SendStart(cmd, "api_idle")
               /\ raised' = ""
               /\ UNCHANGED << prog, call, scope, exit_how, port, rx, jog,
                               age, since_now, now_gap, jog_age, jog_gap,
                               homev, diagv >>
            \/ /\ raised' = "SerialTimeoutException"
               /\ sc_how' = "raised"
               /\ UNCHANGED << prog, call, pc, ret, scope, exit_how, port,
                               env, lines, consumed, stale, elapsed, idle,
                               obs, timers, homev, diagv >>
       ELSE /\ raised' = "RuntimeError"
            /\ sc_how' = "raised"
            /\ UNCHANGED << prog, call, pc, ret, scope, exit_how, port, env,
                            lines, consumed, stale, elapsed, idle, obs,
                            timers, homev, diagv >>

\* gc.close()
ApiClose ==
  /\ prog = "api"
  /\ pc = "api_idle"
  /\ ser' = Close(prog, ser)
  /\ raised' = ""
  /\ rx' = <<>>
  /\ sc_how' = ""
  /\ UNCHANGED << prog, call, pc, ret, scope, exit_how, opened, dev, lines,
                  consumed, stale, elapsed, idle, obs, timers, homev, diagv >>

---------------------------------------------------------------------------
(* go_set_home_test.py: get_current_z                                      *)

\* 'k in line'
Has(l, k) == \E i \in 1..Len(l) : l[i].k = k

\* the index of the first token k of l
First(l, k) ==
  CHOOSE i \in 1..Len(l) : l[i].k = k /\ \A j \in 1..(i - 1) : l[j].k # k

\* str.split(k): the pieces of l between the tokens k
RECURSIVE Split(_, _)
Split(l, k) ==
  IF ~Has(l, k) THEN << l >>
  ELSE << SubSeq(l, 1, First(l, k) - 1) >>
         \o Split(SubSeq(l, First(l, k) + 1, Len(l)), k)

\* float(s): a number and nothing else, spaces around it allowed
IsFloat(s) == Len(Strip(s)) = 1 /\ Strip(s)[1].k = "num"

\* variant: a parser that falls back to 0.0
ParseZDefault(line, frame) ==
  LET s == Split(Split(line, frame)[2], "|")[1]
      fields == Split(s, ",")
  IN IF Len(fields) < 3 \/ ~IsFloat(fields[3]) THEN [err |-> "", z |-> 0]
     ELSE [err |-> "", z |-> Strip(fields[3])[1].n]

\* s = line.split(frame)[1].split("|")[0]; z = float(s.split(",")[2])
ParseZ(line, frame) ==
  LET s == Split(Split(line, frame)[2], "|")[1]
      fields == Split(s, ",")
  IN IF Len(fields) < 3 THEN [err |-> "IndexError", z |-> 0]
     ELSE IF ~IsFloat(fields[3]) THEN [err |-> "ValueError", z |-> 0]
     ELSE [err |-> "", z |-> Strip(fields[3])[1].n]

\* what one line does to get_current_z: nothing ("next"), a return, a raise
ZOfLine(line) ==
  IF Has(line, "WPos:") THEN ParseZ(line, "WPos:")
  ELSE IF Has(line, "MPos:") THEN ParseZ(line, "MPos:")
  ELSE [err |-> "next", z |-> 0]

\* variant: a save-home that clears the home when the call raises
HomeAfterCleared(h, r) == IF r.err = "" THEN << r.z >> ELSE <<>>

\* home_z after "home_z = gc.get_current_z()" ended as r while it was h:
\* the assignment is not reached when the call raises
HomeAfter(h, r) == IF r.err = "" THEN << r.z >> ELSE h

---------------------------------------------------------------------------
(* go_set_home_test.py: main                                               *)

\* pygame.joystick.get_count() == 0: "return"
HomeJoyInit ==
  /\ prog = "home"
  /\ pc = "connected"
  /\ \/ Exit("no_joystick", "", ser)
     \/ EnterLoop

\* one line of get_current_z's loop: return z, raise, or go on
GzRead ==
  /\ pc = "gz_read"
  /\ elapsed < Z_TIMEOUT
  /\ rx # <<>>
  /\ LET r == ZOfLine(Strip(Head(rx))) IN
       /\ rx' = Tail(rx)
       /\ consumed' = Keep(consumed, Head(rx))
       /\ elapsed' = WindowFixed(elapsed)
       /\ idle' = 0
       /\ IF r.err = "next"
            THEN UNCHANGED << pc, home_z, report >>
            ELSE /\ pc' = "gohome"
                 /\ home_z' = HomeAfter(home_z, r)
                 /\ report' = IF r.err = "" THEN "HOME SET"
                              ELSE "Failed to read Z"
  /\ UNCHANGED << stale, prog, call, ret, scope, exit_how, raised, port, dev,
                  lines, sc_how, obs, timers, prev_x, prev_y, btn, home_before,
                  diagv >>

\* time.sleep(0.01) in get_current_z
GzSleep ==
  /\ pc = "gz_read"
  /\ PollSleep(Z_TIMEOUT, TICK_SLEEP)
  /\ UNCHANGED << ctl, call, port, env, lines, consumed, stale, sc_how, obs,
                  homev, diagv >>

\* raise TimeoutError("Could not read Z position"), caught by main
GzTimeout ==
  /\ pc = "gz_read"
  /\ elapsed >= Z_TIMEOUT
  /\ pc' = "gohome"
  /\ report' = "Failed to read Z"
  /\ home_z' = HomeAfter(home_z, [err |-> "TimeoutError", z |-> 0])
  /\ UNCHANGED << prog, call, ret, scope, exit_how, raised, port, env, reader,
                  obs, timers, prev_x, prev_y, btn, home_before, diagv >>

\* f"G90 G0 Z{home_z:.3f}  ; move to home Z (absolute)"
GoHomeLine(z) ==
  << W("G90"), W("G0"), Ax("Z", Fmt3(z)), W(""),
     W("; move to home Z (absolute)") >>

\* variant: the button is acted on in every tick in which it is held
EdgeHeld(pressed, prev) == pressed

\* "if x_pressed and not prev_x" / "if y_pressed and not prev_y"
Edge(pressed, prev) == pressed /\ ~prev

\* variant: a go-home without the test
NoHomeNever(h) == FALSE

\* "if home_z is None"
NoHome(h) == h = <<>>

\* variant: B is looked at first
ButtonStepNegativeFirst(a, b, max_step) ==
  IF b THEN -max_step ELSE IF a THEN max_step ELSE 0

\* "dz = MAX_STEP_MM if a_pressed, elif b_pressed: -MAX_STEP_MM"
ButtonStep(a, b, max_step) == IF a THEN max_step ELSE IF b THEN -max_step ELSE 0

\* prev_x, prev_y = x_pressed, y_pressed; the manual Z jog or the sleep.
\* bt are the buttons read in this tick.
JogStage(bt) ==
  LET dz == ButtonStep(bt.a, bt.b, MAX_STEP_HOME)
      gcode == JogLine(0, 0, dz, FEED_HOME)
  IN IF RateGate(now_gap) /\ Moves(0, 0, dz)
     THEN \/ /\ SendStart(gcode, AfterJog)
             /\ EmitJog(gcode, jog_gap, << 0, 0, dz >>)
             /\ prev_x' = bt.x
             /\ prev_y' = bt.y
             /\ btn' = bt
             /\ report' = "Sending"
             /\ home_before' = <<>>
             /\ UNCHANGED << prog, call, scope, exit_how, raised, port, rx,
                             age, since_now, now_gap, jog_gap, home_z,
                             diagv >>
          \/ Finally("SerialTimeoutException", "fault")
     ELSE /\ prev_x' = bt.x
          /\ prev_y' = bt.y
          /\ age' = AgeAfterIdle(age, since_now)
          /\ jog' = IdleJog(<< 0, 0, dz >>)
          /\ NextTick

\* "if y_pressed and not prev_y": no home, or the absolute move is sent;
\* else on to the jog
GoStage(bt) ==
  IF Edge(bt.y, prev_y)
    THEN /\ btn' = bt
         /\ home_before' = <<>>
         /\ jog' = NoJog
         /\ UNCHANGED << prog, call, scope, exit_how, raised, port, rx,
                         home_z, prev_x, prev_y, diagv >>
         /\ IF NoHome(home_z)
              THEN /\ report' = "No HOME set yet."
                   /\ pc' = "jog"
                   /\ UNCHANGED << ret, reader, tx, dev, timers >>
              ELSE \/ /\ SendStart(GoHomeLine(IF home_z = <<>> THEN 0
                                              ELSE home_z[1]), "went")
                      /\ report' = "HOME GO"
                      /\ UNCHANGED << age, since_now, now_gap, jog_age,
                                      jog_gap >>
                   \/ /\ report' = "Failed to move home"
                      /\ pc' = "jog"
                      /\ Pass(WRITE_TIMEOUT)
                      /\ UNCHANGED << ret, reader, tx, dev >>
    ELSE JogStage(bt)

\* "if x_pressed and not prev_x": get_current_z() writes "?" and polls;
\* else on to go-home
SaveStage(bt) ==
  IF Edge(bt.x, prev_x)
    THEN /\ btn' = bt
         /\ home_before' = home_z
         /\ jog' = NoJog
         /\ UNCHANGED << prog, call, ret, scope, exit_how, raised, port, rx,
                         lines, sc_how, home_z, prev_x, prev_y, diagv >>
         /\ \/ /\ WriteRaw(<<W("?")>>, FALSE)
               /\ pc' = "gz_read"
               /\ elapsed' = 0
               /\ idle' = 0
               /\ consumed' = <<>>
               /\ stale' = Len(rx)
               /\ UNCHANGED << report, timers >>
            \/ /\ report' = "Failed to read Z"
               /\ pc' = "gohome"
               /\ Pass(WRITE_TIMEOUT)
               /\ UNCHANGED << tx, dev, elapsed, idle, consumed, stale >>
    ELSE GoStage(bt)

\* one pass of the loop from the reading of the buttons: to the first
\* exchange it starts, or through the sleep
HomeTick(a, b, x, y) ==
  /\ prog = "home"
  /\ TickStarts(pc)
  /\ SaveStage([a |-> a, b |-> b, x |-> x, y |-> y])

\* the pass goes on after the save-home
HomeGo ==
  /\ prog = "home"
  /\ pc = "gohome"
  /\ GoStage(btn)

\* send_command returned: print, last_cmd_time = time.time()
HomeWent ==
  /\ prog = "home"
  /\ pc = "went"
  /\ pc' = "jog"
  /\ age' = 0
  /\ now_gap' = 0 - since_now
  /\ UNCHANGED << prog, call, ret, scope, exit_how, raised, port, env, reader,
                  obs, since_now, since_motion, jog_age, jog_gap, homev,
                  diagv >>

\* the pass goes on after the go-home
HomeJog ==
  /\ prog = "home"
  /\ pc = "jog"
  /\ JogStage(btn)

---------------------------------------------------------------------------
(* grbl_connection_test.py                                                 *)

\* the start of read_all_lines(ser, timeout); r is where the caller goes on
RaStart(timeout, r) ==
  /\ pc' = "ra_read"
  /\ ret' = r
  /\ ra_lines' = <<>>
  /\ ra_timeout' = timeout
  /\ consumed' = <<>>
  /\ elapsed' = 0
  /\ idle' = 0

\* line = ser.readline().decode().strip(); a line that is not empty is kept
\* and restarts the window
RaRead ==
  /\ pc = "ra_read"
  /\ elapsed < ra_timeout
  /\ rx # <<>>
  /\ LET line == Strip(Head(rx)) IN
       /\ rx' = Tail(rx)
       /\ consumed' = Keep(consumed, Head(rx))
       /\ ra_lines' = IF line # <<>> THEN Keep(ra_lines, line) ELSE ra_lines
       /\ elapsed' = IF line # <<>> THEN 0 ELSE elapsed
       /\ idle' = 0
  /\ UNCHANGED << stale, ctl, call, port, dev, lines, sc_how, obs, timers, homev,
                  ra_timeout, q, n_unlock, n_requery >>

\* time.sleep(0.05) in read_all_lines
RaSleep ==
  /\ pc = "ra_read"
  /\ PollSleep(ra_timeout, READ_ALL_SLEEP)
  /\ UNCHANGED << ctl, call, port, env, lines, consumed, stale, sc_how, obs,
                  homev, diagv >>

\* the window has passed with no line: "return lines"
RaTimeout ==
  /\ pc = "ra_read"
  /\ elapsed >= ra_timeout
  /\ pc' = ret
  /\ UNCHANGED << prog, call, ret, scope, exit_how, raised, port, env, reader,
                  obs, timers, homev, diagv >>

\* send_and_receive(ser, command): flushInput, write, read_all_lines(3)
SendAndReceive(cmd, r) ==
  /\ rx' = <<>>
  /\ stale' = 0
  /\ WriteRaw(Strip(cmd), TRUE)
  /\ RaStart(SEND_RECV_TIMEOUT, r)

\* test_serial_connection: serial.Serial(port, 115200, timeout=1), or
\* SerialException, "return None" and sys.exit(1)
DiagOpen ==
  /\ prog = "diag"
  /\ pc = "start"
  /\ \/ /\ ser' = "open"
        /\ opened' = TRUE
        /\ pc' = "d_boot"
        /\ UNCHANGED << prog, call, ret, scope, exit_how, raised, env, reader,
                        obs, timers, homev, diagv >>
     \/ Exit("connect_failed", "SerialException", ser)

\* time.sleep(2); startup_lines = read_all_lines(ser, timeout=2)
DiagBoot ==
  /\ prog = "diag"
  /\ pc = "d_boot"
  /\ Pass(CONNECT_SLEEP)
  /\ RaStart(STATUS_TIMEOUT, "d_cmd1")
  /\ stale' = Len(rx)
  /\ UNCHANGED << prog, call, scope, exit_how, raised, port, env, lines,
                  sc_how, obs, homev, q, n_unlock, n_requery >>

\* test_command_response: the three commands it sends
DiagCommands == << <<>>, <<W("HELLO")>>, <<W("G0"), W("X0"), W("Y0")>> >>
DiagCmdPcs == << "d_cmd1", "d_cmd2", "d_cmd3", "sq_start" >>

\* main enters its try block with the first command
DiagCommand(i) ==
  /\ prog = "diag"
  /\ pc = DiagCmdPcs[i]
  /\ SendAndReceive(DiagCommands[i], DiagCmdPcs[i + 1])
  /\ scope' = "loop"
  /\ UNCHANGED << prog, call, exit_how, raised, port, lines, sc_how, jog,
                  timers, homev, q, n_unlock, n_requery >>

\* 'ok' in r
ContainsOk(l) == \E i \in 1..Len(l) : l[i].k \in OkPrefixed

\* \w+
StateWords == {"Idle", "Alarm", "Run", "Hold"}

\* status_pattern.match(line):  <(\w+)\|MPos:([-\d.]+),([-\d.]+),([-\d.]+)
MatchStatus(l) ==
  /\ Len(l) >= 9
  /\ l[1].k = "<"
  /\ l[2].k \in StateWords
  /\ l[3].k = "|"
  /\ l[4].k = "MPos:"
  /\ l[5].k = "num" /\ l[6].k = "," /\ l[7].k = "num" /\ l[8].k = ","
  /\ l[9].k = "num"

\* "if match: ... if state == "Alarm""
ReportsAlarm(l) == MatchStatus(l) /\ l[2].k = "Alarm"

\* test_status_query: flushInput, write "?", lines = read_all_lines(2)
SqStart ==
  /\ prog = "diag"
  /\ pc = "sq_start"
  /\ rx' = <<>>
  /\ stale' = 0
  /\ WriteRaw(<<W("?")>>, FALSE)
  /\ RaStart(STATUS_TIMEOUT, "sq_lines")
  /\ UNCHANGED << prog, call, scope, exit_how, raised, port, lines, sc_how,
                  jog, timers, homev, q, n_unlock, n_requery >>

\* "for line in lines"
SqLines ==
  /\ prog = "diag"
  /\ pc = "sq_lines"
  /\ q' = ra_lines
  /\ pc' = "sq_iter"
  /\ UNCHANGED << prog, call, ret, scope, exit_how, raised, port, env, reader,
                  obs, timers, homev, ra_lines, ra_timeout, n_unlock,
                  n_requery >>

\* one line of the loop: a status line in state Alarm sends "$X"
SqIter ==
  /\ prog = "diag"
  /\ pc = "sq_iter"
  /\ IF q = <<>>
       THEN /\ pc' = "sq_done"
            /\ UNCHANGED << ret, env, consumed, stale, elapsed, idle, tx,
                            diagv >>
       ELSE /\ q' = Tail(q)
            /\ IF ReportsAlarm(Head(q))
                 THEN /\ SendAndReceive(<<W("$X")>>, "sq_unlocked")
                      /\ n_unlock' = n_unlock + 1
                      /\ UNCHANGED << n_requery >>
                 ELSE UNCHANGED << pc, ret, env, consumed, stale, elapsed,
                                   idle, tx, ra_lines, ra_timeout, n_unlock,
                                   n_requery >>
  /\ UNCHANGED << prog, call, scope, exit_how, raised, port, lines, sc_how,
                  jog, timers, homev >>

\* "if any('ok' in r for r in unlock_resp)": write "?", read_all_lines(2)
SqUnlocked ==
  /\ prog = "diag"
  /\ pc = "sq_unlocked"
  /\ IF \E i \in 1..Len(ra_lines) : ContainsOk(ra_lines[i])
       THEN /\ WriteRaw(<<W("?")>>, FALSE)
            /\ RaStart(STATUS_TIMEOUT, "sq_iter")
            /\ stale' = Len(rx)
            /\ n_requery' = n_requery + 1
            /\ UNCHANGED << rx, q, n_unlock >>
       ELSE /\ pc' = "sq_iter"
            /\ UNCHANGED << ret, env, consumed, stale, elapsed, idle, tx,
                            diagv >>
  /\ UNCHANGED << prog, call, scope, exit_how, raised, port, lines, sc_how,
                  jog, timers, homev >>

\* the tests after the status query, then "finally: ser.close()"
DiagRest ==
  /\ prog = "diag"
  /\ pc = "sq_done"
  /\ \/ Exit("return", "", Close(prog, ser))
     \/ Finally("SerialException", "fault")

---------------------------------------------------------------------------

Next ==
  \/ Device
  \/ ConnOpen
  \/ ConnSettle
  \/ ConnWake
  \/ ConnUnlock
  \/ ScRead
  \/ ScSleep
  \/ ScTimeout
  \/ PiSettings
  \/ PiJoyInit
  \/ AxisToStep
  \/ TriggerToStep
  \/ \E lx, ly, rz \in PiAxisVals : PiTick(lx, ly, rz)
  \/ Jogged
  \/ Interrupt
  \/ GcodeJoyInit
  \/ \E lx, ly \in GcodeAxisVals : \E lt, rt \in TriggerVals :
       GcodeTick(lx, ly, lt, rt)
  \/ GcodePrinted
  \/ ApiConnect
  \/ \E cmd \in ApiCommands : ApiSend(cmd)
  \/ ApiClose
  \/ HomeJoyInit
  \/ \E a, b, x, y \in BOOLEAN : HomeTick(a, b, x, y)
  \/ GzRead
  \/ GzSleep
  \/ GzTimeout
  \/ HomeGo
  \/ HomeWent
  \/ HomeJog
  \/ DiagOpen
  \/ DiagBoot
  \/ \E i \in 1..3 : DiagCommand(i)
  \/ RaRead
  \/ RaSleep
  \/ RaTimeout
  \/ SqStart
  \/ SqLines
  \/ SqIter
  \/ SqUnlocked
  \/ DiagRest

Spec == Init /\ [][Next]_vars

---------------------------------------------------------------------------
(* The same programs with a device that never runs out of lines.           *)

\* what a streaming device sends into the read loop at place at
StreamLines(at) ==
  IF at = "sc_read" THEN {MsgLine, OkLine}
  ELSE IF at = "gz_read" THEN {MsgLine, IdleLine}
  ELSE {OkLine, AlarmLine}

\* the read loop has polled an empty buffer for StreamPeriod, and the next
\* line of the stream is there
Stream(l) ==
  /\ pc \in {"sc_read", "gz_read", "ra_read"}
  /\ ser = "open"
  /\ rx = <<>>
  /\ idle = 0
  /\ elapsed + StreamPeriod < ReadTimeout
  /\ rx' = << l >>
  /\ elapsed' = elapsed + StreamPeriod
  /\ Pass(StreamPeriod)
  /\ UNCHANGED << ctl, call, port, dev, lines, consumed, stale, sc_how, idle,
                  obs, homev, diagv >>

Streaming == \E l \in StreamLines(pc) : Stream(l)

StreamPrograms == {"api", "home", "diag"}

InitStream == Init /\ prog \in StreamPrograms

\* the steps of the program itself, as opposed to those of the device and of
\* the operator who interrupts
Program ==
  \/ ConnOpen
  \/ ConnSettle
  \/ ConnWake
  \/ ConnUnlock
  \/ ScRead
  \/ ScSleep
  \/ ScTimeout
  \/ Jogged
  \/ ApiConnect
  \/ \E cmd \in ApiCommands : ApiSend(cmd)
  \/ ApiClose
  \/ HomeJoyInit
  \/ \E a, b, x, y \in BOOLEAN : HomeTick(a, b, x, y)
  \/ GzRead
  \/ GzSleep
  \/ GzTimeout
  \/ HomeGo
  \/ HomeWent
  \/ HomeJog
  \/ DiagOpen
  \/ DiagBoot
  \/ \E i \in 1..3 : DiagCommand(i)
  \/ RaRead
  \/ RaSleep
  \/ RaTimeout
  \/ SqStart
  \/ SqLines
  \/ SqIter
  \/ SqUnlocked
  \/ DiagRest

NextStream ==
  \/ Streaming
  \/ Interrupt
  \/ Program

\* the steps of GzRead without the parsing: the line is taken from the
\* buffer, and the loop goes on or get_current_z ends.  Every step of GzRead
\* is one of these, and no other step of NextStream is.
GzTakes ==
  /\ pc = "gz_read"
  /\ elapsed < Z_TIMEOUT
  /\ rx # <<>>
  /\ rx' = Tail(rx)
  /\ consumed' = Keep(consumed, Head(rx))
  /\ elapsed' = WindowFixed(elapsed)
  /\ idle' = 0
  /\ pc' \in {"gz_read", "gohome"}
  /\ home_z' \in {home_z} \cup {<< z >> : z \in ReportedZ(Head(rx))}
  /\ report' \in {report, "HOME SET", "Failed to read Z"}
  /\ UNCHANGED << stale, prog, call, ret, scope, exit_how, raised, port, dev,
                  lines, sc_how, obs, timers, prev_x, prev_y, btn, home_before,
                  diagv >>

\* one pass of a read loop: a line is read, the loop sleeps, or it ends
ReadLoop ==
  \/ ScRead \/ ScSleep \/ ScTimeout
  \/ GzTakes \/ GzSleep \/ GzTimeout
  \/ RaRead \/ RaSleep \/ RaTimeout

\* a read loop that has not ended makes its next pass
SpecStream == InitStream /\ [][NextStream]_vars /\ WF_vars(ReadLoop)

---------------------------------------------------------------------------
(* Properties.                                                             *)

\* send_command is reading, or has ended and its result is still held
InSendCommand == pc = "sc_read" \/ sc_how \in {"terminal", "timeout"}

\* C1: the list send_command builds is the non-empty stripped lines it has
\* taken from the buffer, in arrival order; no line before the last one
\* starts with ok or error; when it stopped on a terminal line, that line is
\* the last one taken from the buffer, so nothing the device sent after it is
\* in the list.
C1_StopsAtFirstTerminal ==
  InSendCommand =>
    /\ lines = NonEmptyStripped(consumed)
    /\ \A i \in 1..(Len(lines) - 1) : ~IsTerminal(lines[i])
    /\ pc = "sc_read" => \A i \in 1..Len(lines) : ~IsTerminal(lines[i])
    /\ sc_how = "terminal" =>
         /\ lines # <<>>
         /\ IsTerminal(lines[Len(lines)])
         /\ Strip(consumed[Len(consumed)]) = lines[Len(lines)]

\* a send_command has returned on a terminal line while a line the device
\* sent after it is in the buffer
C1_Witness ==
  /\ sc_how = "terminal"
  /\ IsTerminal(lines[Len(lines)])
  /\ rx # <<>>

\* C2: when the window of send_command passes with no line that starts with
\* ok or error, the call returns to its caller with the lines received so
\* far, none of them terminal; nothing is raised, main has not ended, and in
\* the loop the tick goes on to its sleep.
C2_TimeoutReturnsLines ==
  sc_how = "timeout" =>
    /\ raised = ""
    /\ exit_how = ""
    /\ pc \notin {"sc_read", "exit"}
    /\ lines = NonEmptyStripped(consumed)
    /\ \A i \in 1..Len(lines) : ~IsTerminal(lines[i])
    /\ pc = "jogged" => ENABLED Jogged
    /\ pc = "went" => ENABLED HomeWent

\* a jog of the loop has timed out after a line that is not terminal
C2_Witness ==
  /\ sc_how = "timeout"
  /\ pc = "jogged"
  /\ lines # <<>>

\* C3: a status query that meets state Alarm writes "$X" exactly once, and
\* when it has ended it has written "?" exactly once after the "$X".
C3_OneUnlockOneRequery ==
  /\ n_unlock <= 1
  /\ pc = "sq_done" /\ n_unlock > 0 => n_requery = 1

\* C4: no G90 G0 line is written while no home is saved, and the step that
\* answers a go-home request with "No HOME set yet." writes nothing.
C4_NoGoHomeBeforeSave ==
  /\ [](IsGoHome(tx.line) => home_z # <<>>)
  /\ [](report = "No HOME set yet." => home_z = <<>>)
  /\ [][report' = "No HOME set yet." /\ report # "No HOME set yet."
          => tx' = tx /\ pc' = "jog"]_vars

\* Y has been pressed with no home saved
C4_Witness ==
  /\ report = "No HOME set yet."
  /\ btn.y
  /\ pc = "jog"

\* C5: after a save-home that failed, home_z is what it was when the
\* save-home began.
C5_FailedSaveKeepsHome == report = "Failed to read Z" => home_z = home_before

\* a save-home has failed on a line it could not parse while a home was
\* saved
C5_Witness ==
  /\ report = "Failed to read Z"
  /\ home_before # <<>>
  /\ consumed # <<>>

\* C6: home_z is None when main starts; it changes only when get_current_z
\* reads a line, and then to the Z the device reported in that line; it never
\* goes back to None while main runs.
C6_HomeFromReportedZ ==
  /\ [](pc = "start" => home_z = <<>>)
  /\ [][home_z' # home_z /\ pc' # "exit" =>
          /\ pc = "gz_read"
          /\ rx # <<>>
          /\ home_z' # <<>>
          /\ home_z'[1] \in ReportedZ(Head(rx))
          /\ report' = "HOME SET"]_vars

\* a saved home has been replaced by another reported Z
C6_Witness ==
  /\ report = "HOME SET"
  /\ home_before # <<>>
  /\ home_z # home_before

\* C7: a jog is emitted in a tick whose timestamp is at least
\* COMMAND_INTERVAL after the timestamp of the tick of the jog before it.
C7_JogsApart == jog.line # <<>> => jog.sep >= COMMAND_INTERVAL

\* a jog has been emitted exactly COMMAND_INTERVAL after the one before it
C7_Witness ==
  /\ prog \in {"pi", "gcode"}
  /\ jog.line # <<>>
  /\ jog.sep = COMMAND_INTERVAL

\* C8: a G90 G0 line is written at least COMMAND_INTERVAL after the motion
\* command written before it.
C8_GoHomeApart == IsGoHome(tx.line) => tx.gap >= COMMAND_INTERVAL

\* C9: every write finds the port open, and a send_command of pi's
\* controller on a closed connection raises RuntimeError in a step that
\* writes nothing.
C9_NoWriteWhileClosed ==
  /\ [](tx.ser = "open")
  /\ [][raised' = "RuntimeError" /\ pc' # "exit" =>
          ser # "open" /\ tx' = tx /\ ser' = ser]_vars

\* send_command has been called after close() and has raised
C9_Witness ==
  /\ prog = "api"
  /\ opened
  /\ ser = "none"
  /\ raised = "RuntimeError"

\* C10: when main has returned because no joystick is present, a port that
\* was opened is not open any more.
C10_ClosedOnEarlyReturn ==
  pc = "exit" /\ exit_how = "no_joystick" /\ opened => ser # "open"

\* C11: when the interrupt has been observed inside the loop's try block,
\* main has ended, the port is not open and no step (so no write) follows.
C11_InterruptCloses ==
  exit_how = "interrupt" => pc = "exit" /\ ser # "open" /\ ~ENABLED Next

\* pi or home has been interrupted in its loop with the port open
C11_Witness ==
  /\ exit_how = "interrupt"
  /\ prog \in {"pi", "home"}
  /\ opened
  /\ ser # "open"

\* C12: a write timeout raised inside the loop leaves main running, with the
\* port open.
C12_WriteTimeoutKeepsLoop ==
  [][raised' = "SerialTimeoutException" /\ scope = "loop" =>
       pc' # "exit" /\ ser' = "open"]_vars

\* C13: get_current_z does not fail on a line it cannot parse while a
\* well-formed status line that arrived inside the same read window is next
\* in the buffer.
C13_MalformedLineSkipped ==
  pc = "gohome" /\ report = "Failed to read Z" /\ consumed # <<>>
    /\ elapsed < Z_TIMEOUT
    => ~(rx # <<>> /\ Head(rx) \in StatusLines)

\* the number of tokens of line l for axis a
AxisTokens(l, a) == Cardinality({i \in 1..Len(l) : l[i].k = a})

\* C14: a jog line has one token for each axis whose delta is not 0.0 and
\* none for the others; a tick whose deltas are all 0.0 builds no jog line
\* and writes none; the jog line a tick writes is the one it built.
C14_AxesOfNonZeroDeltas ==
  /\ jog.line # <<>> =>
       /\ Len(jog.d) = 3
       /\ AxisTokens(jog.line, "X") = (IF jog.d[1] # 0 THEN 1 ELSE 0)
       /\ AxisTokens(jog.line, "Y") = (IF jog.d[2] # 0 THEN 1 ELSE 0)
       /\ AxisTokens(jog.line, "Z") = (IF jog.d[3] # 0 THEN 1 ELSE 0)
  /\ jog.d = << 0, 0, 0 >> => jog.line = <<>> /\ ~IsJog(tx.line)
  /\ prog \in {"pi", "home"} /\ IsJog(tx.line) => tx.line = jog.line

\* a jog has been built for deltas of which X is 0.0 and Z is not
C14_Witness ==
  /\ prog = "pi"
  /\ jog.line # <<>>
  /\ jog.d[1] = 0
  /\ jog.d[3] # 0

\* the place of an axis letter in the order X, Y, Z; 0 for any other token
AxisRank(k) == CASE k = "X" -> 1 [] k = "Y" -> 2 [] k = "Z" -> 3 [] OTHER -> 0

\* C15: a jog line begins with "$J=G91", ends with its only F token, and the
\* tokens between them are axis tokens in the order X, Y, Z.
C15_JogLineShape ==
  jog.line # <<>> =>
    LET l == jog.line
        n == Len(l)
    IN /\ n >= 2
       /\ l[1] = W("$J=G91")
       /\ l[n].k = "F"
       /\ AxisTokens(l, "F") = 1
       /\ \A i \in 2..(n - 1) : AxisRank(l[i].k) > 0
       /\ \A i, j \in 2..(n - 1) : i < j => AxisRank(l[i].k) < AxisRank(l[j].k)

\* a jog line with all three axes has been emitted
C15_Witness ==
  /\ Len(jog.line) = 5
  /\ jog.d[1] # 0 /\ jog.d[2] # 0 /\ jog.d[3] # 0

\* C16: axis_to_step(v, max_step, deadzone) has returned 0 when |v| is less
\* than the deadzone, and max_step * v in every other case, for v = deadzone,
\* v = -deadzone and |v| = 1 as for the rest.
C16_AxisToStepLaw ==
  call.fn = "axis_to_step" /\ call.out # <<>> =>
    LET v == call.args[1]
        max_step == call.args[2]
        deadzone == call.args[3]
    IN call.out[1] * ONE = (IF Abs(v) < deadzone THEN 0 ELSE max_step * v)

\* axis_to_step has returned for a negative value equal to -deadzone
C16_Witness ==
  /\ call.fn = "axis_to_step"
  /\ call.out # <<>>
  /\ call.args[1] < 0
  /\ Abs(call.args[1]) = call.args[3]
  /\ call.out[1] = (call.args[2] * call.args[1]) \div ONE

\* the exchange that has ended wrote the empty command with its newline, had
\* nothing left over in the input buffer, and the device answered it with
\* the one line "ok" inside the window
AnsweredEmptyWithOk ==
  /\ tx.line = <<>>
  /\ tx.nl
  /\ stale = 0
  /\ consumed = << OkLine >>

\* C17: when the empty command has been answered with "ok" by a conforming
\* device, send_command has returned on a terminal line, and the list it
\* returned (the list of read_all_lines for send_and_receive) ends with a
\* line that starts with "ok" and has no other terminal line.
C17_EmptyCommandRoundTrip ==
  /\ sc_how \in {"terminal", "timeout"} /\ AnsweredEmptyWithOk =>
       /\ sc_how = "terminal"
       /\ lines # <<>>
       /\ lines[Len(lines)][1].k \in OkPrefixed
       /\ \A i \in 1..(Len(lines) - 1) : ~IsTerminal(lines[i])
  /\ prog = "diag" /\ pc = "d_cmd2" /\ AnsweredEmptyWithOk =>
       /\ ra_lines # <<>>
       /\ ra_lines[Len(ra_lines)][1].k \in OkPrefixed
       /\ \A i \in 1..(Len(ra_lines) - 1) : ~IsTerminal(ra_lines[i])

\* send_command("") of pi's controller has returned what a conforming device
\* answered
C17_Witness ==
  /\ prog = "api"
  /\ sc_how = "terminal"
  /\ AnsweredEmptyWithOk
  /\ lines = << OkLine >>

\* C20: the terminal line send_command returns is not one of the lines that
\* were in the input buffer before the call wrote its command.
C20_TerminalAnswersThisCall == sc_how = "terminal" => Len(consumed) > stale

\* C18: read_all_lines, once started, returns, also when the device sends a
\* new line before each idle window has passed.
C18_ReaderReturns == [](pc = "ra_read" => <>(pc # "ra_read"))

\* C19: the read loop of send_command and of get_current_z never runs past
\* its window, and every such loop ends (it returns, or raises its timeout),
\* whatever the device sends.
C19_ExchangesEnd ==
  /\ [](pc = "sc_read" => elapsed <= SEND_TIMEOUT)
  /\ [](pc = "gz_read" => elapsed <= Z_TIMEOUT)
  /\ [](pc \in {"sc_read", "gz_read"} => <>(pc \notin {"sc_read", "gz_read"}))

\* send_command has timed out after it read lines of a stream
C19_Witness ==
  /\ sc_how = "timeout"
  /\ Len(lines) >= 2
  /\ elapsed >= SEND_TIMEOUT

\* the places of the program inside the read loop of an exchange
ReadPcs == {"sc_read", "gz_read", "ra_read"}

\* C21: no write is made while the read loop of an exchange is in progress:
\* every write is made from a place outside the read loops, and while a read
\* loop runs the last write stays the one that began the exchange.
C21_NoWriteMidExchange ==
  /\ [](tx.at \notin ReadPcs)
  /\ [][(pc \in ReadPcs /\ pc' # "exit") => (tx' = tx)]_vars

\* the go-home command is being answered in a tick that began with a status
\* query
C21_Witness ==
  /\ prog = "home"
  /\ pc = "sc_read"
  /\ IsGoHome(tx.line)
  /\ tx.at = "gohome"
  /\ btn.x /\ btn.y
  /\ home_before # home_z

\* C22: the Z delta of a tick of home is +MAX_STEP_MM when A is held (also
\* when B is held with it), -MAX_STEP_MM when only B is held and 0.0 when
\* neither is; the jog that is emitted carries that delta as its Z token.
C22_PositiveButtonWins ==
  /\ [](prog = "home" /\ jog.line # <<>> =>
          /\ btn.a \/ btn.b
          /\ jog.d = << 0, 0, IF btn.a THEN MAX_STEP_HOME ELSE -MAX_STEP_HOME >>
          /\ jog.line[2] = Ax("Z", Fmt3(jog.d[3]))
          /\ tx.line = jog.line)
  /\ [][(prog = "home" /\ pc = "jog" /\ pc' # "exit" /\ RateGate(now_gap)) =>
          (jog'.d = << 0, 0, IF btn.a THEN MAX_STEP_HOME
                             ELSE IF btn.b THEN -MAX_STEP_HOME ELSE 0 >>)]_vars

\* a jog has been emitted in a tick in which A and B were both held
C22_Witness ==
  /\ prog = "home"
  /\ jog.line # <<>>
  /\ btn.a /\ btn.b
  /\ jog.line[2] = Ax("Z", Fmt3(MAX_STEP_HOME))
  /\ tx.line = jog.line

\* C23: the Z contribution computed from the triggers lt and rt is 0.0 when
\* the absolute difference of the two normalized triggers is below the
\* deadzone, and max_step times that difference otherwise, for every step
\* and deadzone.
C23_DeadzoneOnDifference ==
  call.fn = "trigger_step" /\ call.out # <<>> =>
    LET left == IF call.args[1] < 0 THEN (call.args[1] + ONE) \div 2
                ELSE call.args[1]
        right == IF call.args[2] < 0 THEN (call.args[2] + ONE) \div 2
                 ELSE call.args[2]
        max_step == call.args[3]
        deadzone == call.args[4]
    IN call.out[1] * ONE =
         (IF Abs(right - left) < deadzone THEN 0 ELSE max_step * (right - left))

\* C24: the go-home line that is written is "G90", "G0" and the Z token of
\* the saved home to three decimal places, and nothing after them.
C24_GoHomeLineBare ==
  IsGoHome(tx.line) /\ home_z # <<>> =>
    tx.line = << W("G90"), W("G0"), Ax("Z", Fmt3(home_z[1])) >>

\* C25: send_command writes its line in the step that begins its read loop
\* and nothing more until it has returned, whatever the device answers; when
\* the send_command of a jog has returned, the tick goes to its sleep without
\* another write; a jog is written only by a tick that has emitted none yet,
\* whose rate gate is open and whose deltas are not all 0.0.
C25_NothingRetried ==
  /\ [](pc = "sc_read" => tx.nl /\ tx.at \notin ReadPcs)
  /\ [][(pc = "sc_read" /\ pc' # "exit") => (tx' = tx)]_vars
  /\ [][(pc = "jogged" /\ pc' # "exit") => (pc' = "loop" /\ tx' = NoTx)]_vars
  /\ [][(prog \in {"pi", "home"} /\ IsJog(tx'.line) /\ tx' # tx) =>
          (/\ pc \in {"loop", "gohome", "jog"}
           /\ jog.line = <<>>
           /\ RateGate(now_gap)
           /\ jog'.line = tx'.line
           /\ jog'.d # << 0, 0, 0 >>)]_vars

\* the send_command of a jog has returned on "error"
C25_Witness ==
  /\ pc = "jogged"
  /\ IsJog(tx.line)
  /\ sc_how = "terminal"
  /\ lines[Len(lines)][1].k \in ErrorPrefixed

\* the places of connect / __init__ up to its second discard
StartupPcs == {"start", "settle1", "wake", "settle2"}

\* C26: connect opens the port, sleeps and discards the input, writes the
\* wake sequence, sleeps and discards the input again, and only then writes
\* "$X"; no command line is written from a place before the second discard,
\* and pi and home write motion commands only from their loop.
C26_ConnectOrder ==
  /\ [](tx.nl => tx.at \notin StartupPcs)
  /\ [](tx.line = << W("\r\n\r\n") >> => tx.at = "wake" /\ ~tx.nl)
  /\ [](prog \in {"pi", "home"} /\ IsMotion(tx.line) =>
          scope = "loop" /\ tx.at \in {"loop", "gohome", "jog"})
  /\ [][(prog \in {"pi", "home", "api"} /\ pc = "start"
           /\ pc' \notin {"exit", "api_idle"}) =>
          (pc' = "settle1" /\ ser' = "open" /\ tx' = tx)]_vars
  /\ [][(pc = "settle1" /\ pc' \notin {"exit", "settle1"}) =>
          (pc' = "wake" /\ rx' = <<>> /\ tx' = tx)]_vars
  /\ [][(pc = "wake" /\ pc' \notin {"exit", "api_idle"}) =>
          (pc' = "settle2" /\ tx'.line = << W("\r\n\r\n") >> /\ rx' = rx)]_vars
  /\ [][(pc = "settle2" /\ pc' \notin {"exit", "settle2"}) =>
          (pc' = "unlock" /\ rx' = <<>> /\ tx' = tx)]_vars
  /\ [][(pc = "unlock" /\ pc' \notin {"exit", "api_idle"}) =>
          (pc' = "sc_read" /\ tx'.line = << W("$X") >> /\ tx'.nl)]_vars

\* the second discard has dropped what the device sent, and "$X" has not
\* been written
C26_Witness ==
  /\ pc = "unlock"
  /\ ser = "open"
  /\ dev < MaxDevLines
  /\ rx = <<>>
  /\ tx.line = << W("\r\n\r\n") >>

\* C27: home writes "?" only from the top of a tick in which X is pressed
\* and was not pressed in the tick before, and "G90 G0" only in a tick in
\* which Y is pressed and was not in the tick before; a tick leaves prev_x and
\* prev_y as the buttons it read, so that a button that stays held starts
\* nothing in the ticks that follow.
C27_EdgeTriggered ==
  /\ [][(prog = "home" /\ tx'.line = << W("?") >> /\ tx' # tx) =>
          (pc = "loop" /\ btn'.x /\ ~prev_x /\ prev_x' = prev_x)]_vars
  /\ [][(prog = "home" /\ IsGoHome(tx'.line) /\ tx' # tx) =>
          (pc \in {"loop", "gohome"} /\ btn'.y /\ ~prev_y
           /\ prev_y' = prev_y)]_vars
  /\ [][\A a, b, x, y \in BOOLEAN :
          (HomeTick(a, b, x, y) /\ pc' # "exit") =>
            (/\ pc' \in {"gz_read", "gohome"} <=> (x /\ ~prev_x)
             /\ pc' \in {"loop", "sc_read"} /\ ~IsGoHome(tx'.line) =>
                  prev_x' = x /\ prev_y' = y
             /\ prev_y /\ y => ~IsGoHome(tx'.line))]_vars
  /\ [][(prog = "home" /\ pc \in {"gohome", "jog"}
           /\ (pc' = "loop" \/ (pc' = "sc_read" /\ IsJog(tx'.line)))) =>
          (prev_x' = btn.x /\ prev_y' = btn.y)]_vars

\* a jog has been sent by a tick that read X as held and started no status
\* query, with a home saved
C27_Witness ==
  /\ prog = "home"
  /\ jog.line # <<>>
  /\ tx.at = "loop"
  /\ btn.x
  /\ prev_x
  /\ home_z # <<>>

\* the places of a tick from which it can go to its sleep without a jog
IdleEndPcs == {"loop", "gohome", "jog"}

=============================================================================
